---------------------------- MODULE Spec2Model ----------------------------
(***************************************************************************)
(* The council workflow of echo_chamber (src/workflow.py, src/agents.py):  *)
(* one run of CouncilWorkflow.run, stepped at its suspension points.       *)
(*                                                                         *)
(* A node of the compiled StateGraph is a coroutine; every `await` of it   *)
(* (the ui_callback, an agent's model call, asyncio.gather) is a point at  *)
(* which it is suspended, and every stretch of code between two such       *)
(* points is one action.  A node's returned dict is merged into the        *)
(* CouncilState by the graph (operator.add on drafts and                   *)
(* feedback_history, overwrite on the other keys) when the node returns.   *)
(***************************************************************************)
EXTENDS Integers, Sequences, FiniteSets, TLC

\* ------------------------------------------------------------------ bounds

\* Largest debate_rounds of a configuration (CouncilConfig requires >= 1).
MaxRounds == 3
\* Largest number of configured council members.
MaxMembers == 2
\* Most reviewer invocations of one run (debate_rounds * members).
MaxReviews == 6
\* should_continue_debate is applied to every pair of integers in -PredRange..PredRange.
PredRange == 5

\* The queries a caller may pass to run.
Queries == {"Explain X", "What is AI?"}

\* Raw replies of the model, as sequences of words; " " is whitespace and
\* "Summary:" the marker split_summary looks for.  usage stands for the
\* reply's usage_metadata: <<>> when the reply has none, else the token counts.
NoUsage == <<>>
RawReplies ==
    { [content |-> <<"alpha">>, usage |-> NoUsage],
      [content |-> <<" ", "beta", " ", "Summary:", " ", "short">>,
       usage |-> <<[input_tokens |-> 1, output_tokens |-> 1, total_tokens |-> 2]>>] }

VARIABLES
    config,     \* the CouncilWorkflow's configuration: debate_rounds, members, callback
    state,      \* the CouncilState held by the graph (the RoundState)
    pc,         \* where the run is: a node about to start, an await, end, done, failed
    response,   \* the node's local `response` (the awaited agent result)
    round,      \* council_debate's local current_round
    tasks,      \* the reviewer tasks handed to asyncio.gather: member -> status
    results,    \* the results gather holds: member -> AgentResponse
    order,      \* the members in the order their tasks finished (this fan-out)
    events,     \* every ui_callback call made, in order
    calls,      \* every agent operation invoked, in order
    stages,     \* every node entered, in order
    fanouts,    \* how many times asyncio.gather was called
    failure,    \* what made run raise
    returned,   \* what run returned: <<>> before it returns, then <<value>>
    replies,    \* the model's raw reply to each invocation: index in calls -> reply
    reruns,     \* how many earlier calls of run this CouncilWorkflow has seen
    other       \* the frame of a second run, suspended while this one steps

vars == <<config, state, pc, response, round, tasks, results, order,
          events, calls, stages, fanouts, failure, returned, replies, reruns, other>>

None == [none |-> TRUE]
NoFailure == <<"none">>

Members == 1 .. config.n_members

\* --------------------------------------------------------------- agents.py

\* The whitespace str.strip removes, with the blank and the newline for it.
IsSpace(w) == w \in {" ", "\n"}

RECURSIVE lstrip(_)
lstrip(s) == IF s # <<>> /\ IsSpace(Head(s)) THEN lstrip(Tail(s)) ELSE s

RECURSIVE rstrip(_)
rstrip(s) ==
    IF s # <<>> /\ IsSpace(s[Len(s)]) THEN rstrip(SubSeq(s, 1, Len(s) - 1)) ELSE s

strip(s) == rstrip(lstrip(s))

\* The positions of the marker in text.
MarkerAt(text) == { i \in 1 .. Len(text) : text[i] = "Summary:" }

\* text.split("Summary:", 1): the split at the first marker.
split_summary_first_marker(text) ==
    IF MarkerAt(text) # {}
    THEN LET k == CHOOSE i \in MarkerAt(text) : \A j \in MarkerAt(text) : i <= j
         IN  <<strip(SubSeq(text, 1, k - 1)), strip(SubSeq(text, k + 1, Len(text)))>>
    ELSE <<strip(text), <<>>>>

\* text.rsplit("Summary:", 1): the split at the last marker.
split_summary(text) ==
    IF MarkerAt(text) # {}
    THEN LET k == CHOOSE i \in MarkerAt(text) : \A j \in MarkerAt(text) : j <= i
         IN  <<strip(SubSeq(text, 1, k - 1)), strip(SubSeq(text, k + 1, Len(text)))>>
    ELSE <<strip(text), <<>>>>

\* A Python dict as a function; d[k] = v.
EmptyDict == <<>>
SetKey(d, k, v) == [x \in (DOMAIN d) \cup {k} |-> IF x = k THEN v ELSE d[x]]

\* BaseAgent.generate_response on the model's reply raw.
generate_response(agent_id, agent_type, raw) ==
    LET sp == split_summary(raw.content)
        m1 == IF sp[2] # <<>> THEN SetKey(EmptyDict, "summary", sp[2]) ELSE EmptyDict
        m2 == IF raw.usage # NoUsage THEN SetKey(m1, "token_usage", raw.usage[1]) ELSE m1
    IN  [content |-> sp[1], agent_id |-> agent_id, agent_type |-> agent_type,
         metadata |-> m2]

DraftAgentId == <<"draft_agent">>
EditorAgentId == <<"editor_agent">>
\* Every CouncilMember given the agent_id of member 0.
CouncilMemberId_all_zero(i) == <<"council_member", 0>>

\* f"council_member_{member_id}": the i-th configured member has member_id i - 1.
CouncilMemberId(i) == <<"council_member", i - 1>>

\* DraftAgent.create_initial_draft
create_initial_draft(raw) == generate_response(DraftAgentId, "DraftAgent", raw)

\* DraftAgent.update_draft
update_draft(raw) ==
    LET r == generate_response(DraftAgentId, "DraftAgent", raw)
    IN  [r EXCEPT !.metadata = SetKey(@, "revision", TRUE)]

\* provide_feedback putting a fresh dict with round alone in place of the metadata.
provide_feedback_replaces_metadata(i, round_number, raw) ==
    LET r == generate_response(CouncilMemberId(i), "CouncilMember", raw)
    IN  [r EXCEPT !.metadata = SetKey(EmptyDict, "round", round_number)]

\* CouncilMember.provide_feedback
provide_feedback(i, round_number, raw) ==
    LET r == generate_response(CouncilMemberId(i), "CouncilMember", raw)
    IN  [r EXCEPT !.metadata = SetKey(@, "round", round_number)]

\* EditorAgent.edit_final_response
edit_final_response(raw) ==
    LET r == generate_response(EditorAgentId, "EditorAgent", raw)
    IN  [r EXCEPT !.metadata = SetKey(@, "final", TRUE)]

\* ------------------------------------------------------------- workflow.py

\* CouncilState's reducers: operator.add on the two annotated lists.
AddKeys == {"drafts", "feedback_history"}

\* The merge without the operator.add reducers: every returned key overwrites.
ApplyUpdate_overwrite(s, u) == [k \in DOMAIN s |-> IF k \in DOMAIN u THEN u[k] ELSE s[k]]

\* The graph's merge of a node's returned dict into the state.
ApplyUpdate(s, u) ==
    [k \in DOMAIN s |->
        IF k \in DOMAIN u
        THEN IF k \in AddKeys THEN s[k] \o u[k] ELSE u[k]
        ELSE s[k]]

\* The predicate with > in place of >=.
should_continue_debate_off_by_one(current_round, max_rounds) ==
    IF current_round > max_rounds THEN "end" ELSE "continue"

\* CouncilWorkflow.should_continue_debate on state["current_round"], state["max_rounds"].
should_continue_debate(current_round, max_rounds) ==
    IF current_round >= max_rounds THEN "end" ELSE "continue"

\* The mapping of add_conditional_edges("council_debate", ...).
DebateEdges == [continue |-> "update_draft", end |-> "final_edit"]

AfterDebate(s) == DebateEdges[should_continue_debate(s.current_round, s.max_rounds)]

\* An initial_state whose max_rounds is the default of the configuration field.
InitialState_default_rounds(user_query) ==
    [user_query |-> user_query, current_draft |-> <<>>, drafts |-> <<>>,
     feedback_history |-> <<>>, current_round |-> 0,
     max_rounds |-> 3, final_response |-> <<>>,
     ui_callback |-> config.ui_callback]

\* run's initial_state.
InitialState(user_query) ==
    [user_query |-> user_query, current_draft |-> <<>>, drafts |-> <<>>,
     feedback_history |-> <<>>, current_round |-> 0,
     max_rounds |-> config.debate_rounds, final_response |-> <<>>,
     ui_callback |-> config.ui_callback]

Emit(type, payload) == events' = Append(events, [type |-> type, payload |-> payload])
Call(agent_id, op, args) == Append(calls, [agent_id |-> agent_id, op |-> op, args |-> args])
Enter(node) == stages' = Append(stages, node)

NoTasks == [i \in {} |-> None]
NoReplies == [k \in {} |-> None]
\* No second run.
NoFrame == [pc |-> "none"]

\* The pcs at which the run is suspended in a ui_callback, an agent call, gather.
CallbackPcs == {"cd_status", "cd_notify", "db_status", "db_notify",
                "ud_status", "ud_notify", "fe_status", "fe_notify"}
AgentPcs == {"cd_agent", "ud_agent", "fe_agent"}
AwaitPcs == CallbackPcs \cup AgentPcs \cup {"db_gather"}

\* The agent awaited at an agent pc.
AwaitedAgent(p) == IF p = "fe_agent" THEN EditorAgentId ELSE DraftAgentId

\* ---- run (lines 177-191): build initial_state, hand it to the graph.
Run(user_query) ==
    /\ pc = "idle"
    /\ state' = InitialState(user_query)
    /\ pc' = "create_draft"
    /\ UNCHANGED <<config, reruns, other, replies, response, round, tasks, results, order, events, calls,
                   stages, fanouts, failure, returned>>

\* ---- create_initial_draft (lines 78-92)
CreateDraftInvoke ==
    /\ calls' = Call(DraftAgentId, "create_initial_draft",
                     [user_query |-> state.user_query])
    /\ pc' = "cd_agent"

\* create_initial_draft returning current_round 1.
CreateDraftCommit_round_one(r) ==
    /\ state' = ApplyUpdate(state, [current_draft |-> r.content,
                                    drafts |-> <<r.content>>,
                                    current_round |-> 1])
    /\ pc' = "council_debate"

\* return {"current_draft": ..., "drafts": [...], "current_round": 0}
CreateDraftCommit(r) ==
    /\ state' = ApplyUpdate(state, [current_draft |-> r.content,
                                    drafts |-> <<r.content>>,
                                    current_round |-> 0])
    /\ pc' = "council_debate"

\* create_initial_draft starting its agent call without awaiting the status
\* callback.
CreateDraftEnter_status_not_awaited ==
    /\ pc = "create_draft"
    /\ Enter("create_draft")
    /\ IF config.ui_callback
       THEN /\ Emit("status", <<"Creating initial draft...">>)
            /\ CreateDraftInvoke
       ELSE /\ CreateDraftInvoke
            /\ UNCHANGED events
    /\ UNCHANGED <<config, reruns, other, replies, state, response, round, tasks, results, order,
                   fanouts, failure, returned>>

CreateDraftEnter ==
    /\ pc = "create_draft"
    /\ Enter("create_draft")
    /\ IF config.ui_callback
       THEN /\ Emit("status", <<"Creating initial draft...">>)
            /\ pc' = "cd_status"
            /\ UNCHANGED calls
       ELSE /\ CreateDraftInvoke
            /\ UNCHANGED events
    /\ UNCHANGED <<config, reruns, other, replies, state, response, round, tasks, results, order,
                   fanouts, failure, returned>>

CreateDraftStatusDone ==
    /\ pc = "cd_status"
    /\ CreateDraftInvoke
    /\ UNCHANGED <<config, reruns, other, replies, state, response, round, tasks, results, order, events,
                   stages, fanouts, failure, returned>>

CreateDraftAgentReturn(raw) ==
    /\ pc = "cd_agent"
    /\ response' = create_initial_draft(raw)
    /\ IF config.ui_callback
       THEN /\ Emit("draft_created", response')
            /\ pc' = "cd_notify"
            /\ UNCHANGED state
       ELSE /\ CreateDraftCommit(response')
            /\ UNCHANGED events
    /\ replies' = SetKey(replies, Len(calls), raw)
    /\ UNCHANGED <<config, reruns, other, round, tasks, results, order, calls, stages, fanouts,
                   failure, returned>>

\* The draft_created callback returning without the node's update.
CreateDraftNotifyDone_drops_update ==
    /\ pc = "cd_notify"
    /\ pc' = "council_debate"
    /\ UNCHANGED state
    /\ UNCHANGED <<config, reruns, other, replies, response, round, tasks, results, order, events, calls,
                   stages, fanouts, failure, returned>>

CreateDraftNotifyDone ==
    /\ pc = "cd_notify"
    /\ CreateDraftCommit(response)
    /\ UNCHANGED <<config, reruns, other, replies, response, round, tasks, results, order, events, calls,
                   stages, fanouts, failure, returned>>

\* ---- council_debate (lines 94-131)

\* round_feedback (lines 114-120) of the list gather returned.
RoundFeedback(feedback_responses) ==
    [k \in 1 .. Len(feedback_responses) |->
        [agent_id |-> feedback_responses[k].agent_id,
         feedback |-> feedback_responses[k].content]]

\* The results in the order the tasks finished.
gather_in_completion_order(res, ord) == [k \in 1 .. Len(ord) |-> res[ord[k]]]

\* What asyncio.gather returns once every task is done: the results in the
\* order of its arguments, whatever the order ord the tasks finished in.
gather(res, ord) == [k \in 1 .. Len(res) |-> res[k]]

\* council_debate returning current_round alone.
DebateCommit_no_history(round_feedback) ==
    /\ state' = ApplyUpdate(state, [current_round |-> round'])
    /\ pc' = AfterDebate(state')

\* return {"current_round": current_round, "feedback_history": [round_feedback]},
\* then the conditional edge on the merged state.
DebateCommit(round_feedback) ==
    /\ state' = ApplyUpdate(state, [current_round |-> round',
                                    feedback_history |-> <<round_feedback>>])
    /\ pc' = AfterDebate(state')

\* Lines 113-131 notifying state["current_round"] in place of the local current_round.
AfterGather_stale_round(feedback_responses) ==
    IF config.ui_callback
    THEN /\ Emit("feedback_round", [round |-> state.current_round,
                                    feedback |-> RoundFeedback(feedback_responses)])
         /\ pc' = "db_notify"
         /\ UNCHANGED state
    ELSE /\ DebateCommit(RoundFeedback(feedback_responses))
         /\ UNCHANGED events

\* Lines 113-131, with the list feedback_responses gather returned.
AfterGather(feedback_responses) ==
    IF config.ui_callback
    THEN /\ Emit("feedback_round", [round |-> round',
                                    feedback |-> RoundFeedback(feedback_responses)])
         /\ pc' = "db_notify"
         /\ UNCHANGED state
    ELSE /\ DebateCommit(RoundFeedback(feedback_responses))
         /\ UNCHANGED events

\* The fan-out numbering the round by the member's position.
Fanout_round_per_member ==
    /\ calls' = calls \o
          [i \in Members |->
              [agent_id |-> CouncilMemberId(i), op |-> "provide_feedback",
               args |-> [user_query |-> state.user_query,
                         current_draft |-> state.current_draft,
                         round_number |-> round' + i - 1]]]
    /\ fanouts' = fanouts + 1
    /\ tasks' = [i \in Members |-> "inflight"]
    /\ results' = [i \in Members |-> None]
    /\ order' = <<>>
    /\ IF config.n_members = 0
       THEN AfterGather(<<>>)
       ELSE /\ pc' = "db_gather"
            /\ UNCHANGED <<state, events>>

\* The fan-out handing every round the initial draft.
Fanout_first_draft ==
    /\ calls' = calls \o
          [i \in Members |->
              [agent_id |-> CouncilMemberId(i), op |-> "provide_feedback",
               args |-> [user_query |-> state.user_query,
                         current_draft |-> state.drafts[1],
                         round_number |-> round']]]
    /\ fanouts' = fanouts + 1
    /\ tasks' = [i \in Members |-> "inflight"]
    /\ results' = [i \in Members |-> None]
    /\ order' = <<>>
    /\ IF config.n_members = 0
       THEN AfterGather(<<>>)
       ELSE /\ pc' = "db_gather"
            /\ UNCHANGED <<state, events>>

\* Lines 101-111: one provide_feedback coroutine per member, in configuration
\* order, all handed to gather.  gather() of no coroutine is done at once.
Fanout ==
    /\ calls' = calls \o
          [i \in Members |->
              [agent_id |-> CouncilMemberId(i), op |-> "provide_feedback",
               args |-> [user_query |-> state.user_query,
                         current_draft |-> state.current_draft,
                         round_number |-> round']]]
    /\ fanouts' = fanouts + 1
    /\ tasks' = [i \in Members |-> "inflight"]
    /\ results' = [i \in Members |-> None]
    /\ order' = <<>>
    /\ IF config.n_members = 0
       THEN AfterGather(<<>>)
       ELSE /\ pc' = "db_gather"
            /\ UNCHANGED <<state, events>>

DebateEnter ==
    /\ pc = "council_debate"
    /\ Enter("council_debate")
    /\ round' = state.current_round + 1
    /\ IF config.ui_callback
       THEN /\ Emit("status", <<"Council debate round", round'>>)
            /\ pc' = "db_status"
            /\ UNCHANGED <<state, calls, fanouts, tasks, results, order>>
       ELSE Fanout
    /\ UNCHANGED <<config, reruns, other, replies, response, failure, returned>>

DebateStatusDone ==
    /\ pc = "db_status"
    /\ round' = round
    /\ Fanout
    /\ UNCHANGED <<config, reruns, other, replies, response, stages, failure, returned>>

\* The place in calls of member i's invocation of the latest fan-out.
CallIndex(i) == Len(calls) - config.n_members + i

\* A reviewer's model call returns.  After the run has failed the task still
\* runs to its end, and nobody reads its result.
ReviewerReturn(i, raw) ==
    /\ i \in DOMAIN tasks
    /\ tasks[i] = "inflight"
    /\ tasks' = [tasks EXCEPT ![i] = "ok"]
    /\ order' = Append(order, i)
    /\ results' = IF pc = "db_gather"
                  THEN [results EXCEPT ![i] = provide_feedback(i, round, raw)]
                  ELSE results
    /\ replies' = IF pc = "db_gather" THEN SetKey(replies, CallIndex(i), raw) ELSE replies
    /\ UNCHANGED <<config, reruns, other, state, pc, response, round, events, calls, stages,
                   fanouts, failure, returned>>

\* A failing task whose failure gather keeps to itself.
ReviewerFail_not_propagated(i) ==
    /\ i \in DOMAIN tasks
    /\ tasks[i] = "inflight"
    /\ tasks' = [tasks EXCEPT ![i] = "failed"]
    /\ order' = Append(order, i)
    /\ UNCHANGED <<config, reruns, other, replies, state, pc, failure, response, round, results, events,
                   calls, stages, fanouts, returned>>

\* A reviewer's model call fails: gather (return_exceptions=False) hands the
\* first failure to the awaiting node at once and leaves the other tasks running.
ReviewerFail(i) ==
    /\ i \in DOMAIN tasks
    /\ tasks[i] = "inflight"
    /\ tasks' = [tasks EXCEPT ![i] = "failed"]
    /\ order' = Append(order, i)
    /\ IF pc = "db_gather"
       THEN /\ pc' = "failed"
            /\ failure' = <<"agent", CouncilMemberId(i)>>
       ELSE UNCHANGED <<pc, failure>>
    /\ UNCHANGED <<config, reruns, other, replies, state, response, round, results, events, calls, stages,
                   fanouts, returned>>

\* gather that returns only if the tasks finished in argument order.
GatherJoin_in_argument_order_only ==
    /\ pc = "db_gather"
    /\ \A i \in DOMAIN tasks : tasks[i] = "ok"
    /\ order = [i \in Members |-> i]
    /\ round' = round
    /\ AfterGather(gather(results, order))
    /\ UNCHANGED <<config, reruns, other, replies, response, tasks, results, order, calls, stages, fanouts,
                   failure, returned>>

GatherJoin ==
    /\ pc = "db_gather"
    /\ \A i \in DOMAIN tasks : tasks[i] = "ok"
    /\ round' = round
    /\ AfterGather(gather(results, order))
    /\ UNCHANGED <<config, reruns, other, replies, response, tasks, results, order, calls, stages,
                   fanouts, failure, returned>>

DebateNotifyDone ==
    /\ pc = "db_notify"
    /\ round' = round
    /\ DebateCommit(RoundFeedback(gather(results, order)))
    /\ UNCHANGED <<config, reruns, other, replies, response, tasks, results, order, events, calls, stages,
                   fanouts, failure, returned>>

\* update_draft handing the Drafter the feedback of every round so far.
UpdateInvoke_all_feedback ==
    LET all_feedback == [r \in 1 .. Len(state.feedback_history) |->
                            [k \in 1 .. Len(state.feedback_history[r]) |->
                                state.feedback_history[r][k].feedback]]
        feedback_texts == IF all_feedback = <<>> THEN <<>>
                          ELSE IF Len(all_feedback) = 1 THEN all_feedback[1]
                          ELSE all_feedback[1] \o all_feedback[Len(all_feedback)]
    IN  /\ calls' = Call(DraftAgentId, "update_draft",
                         [current_draft |-> state.current_draft,
                          feedback |-> feedback_texts])
        /\ pc' = "ud_agent"

\* ---- update_draft (lines 133-153)
UpdateInvoke ==
    LET latest_feedback == state.feedback_history[Len(state.feedback_history)]
        feedback_texts == [k \in 1 .. Len(latest_feedback) |-> latest_feedback[k].feedback]
    IN  /\ calls' = Call(DraftAgentId, "update_draft",
                         [current_draft |-> state.current_draft,
                          feedback |-> feedback_texts])
        /\ pc' = "ud_agent"

\* update_draft with its edge leading to final_edit.
UpdateCommit_to_final_edit(r) ==
    /\ state' = ApplyUpdate(state, [current_draft |-> r.content,
                                    drafts |-> <<r.content>>])
    /\ pc' = "final_edit"

\* update_draft returning the new draft in drafts alone.
UpdateCommit_keeps_current_draft(r) ==
    /\ state' = ApplyUpdate(state, [drafts |-> <<r.content>>])
    /\ pc' = "council_debate"

\* return {"current_draft": ..., "drafts": [...]}
UpdateCommit(r) ==
    /\ state' = ApplyUpdate(state, [current_draft |-> r.content,
                                    drafts |-> <<r.content>>])
    /\ pc' = "council_debate"

UpdateEnter ==
    /\ pc = "update_draft"
    /\ Enter("update_draft")
    /\ IF config.ui_callback
       THEN /\ Emit("status", <<"Updating draft based on feedback...">>)
            /\ pc' = "ud_status"
            /\ UNCHANGED calls
       ELSE /\ UpdateInvoke
            /\ UNCHANGED events
    /\ UNCHANGED <<config, reruns, other, replies, state, response, round, tasks, results, order,
                   fanouts, failure, returned>>

UpdateStatusDone ==
    /\ pc = "ud_status"
    /\ UpdateInvoke
    /\ UNCHANGED <<config, reruns, other, replies, state, response, round, tasks, results, order, events,
                   stages, fanouts, failure, returned>>

UpdateAgentReturn(raw) ==
    /\ pc = "ud_agent"
    /\ response' = update_draft(raw)
    /\ IF config.ui_callback
       THEN /\ Emit("draft_updated", response')
            /\ pc' = "ud_notify"
            /\ UNCHANGED state
       ELSE /\ UpdateCommit(response')
            /\ UNCHANGED events
    /\ replies' = SetKey(replies, Len(calls), raw)
    /\ UNCHANGED <<config, reruns, other, round, tasks, results, order, calls, stages, fanouts,
                   failure, returned>>

UpdateNotifyDone ==
    /\ pc = "ud_notify"
    /\ UpdateCommit(response)
    /\ UNCHANGED <<config, reruns, other, replies, response, round, tasks, results, order, events, calls,
                   stages, fanouts, failure, returned>>

\* ---- final_edit (lines 155-169)
\* The Editor handed drafts[0] in place of current_draft.
FinalEditInvoke_first_draft ==
    /\ calls' = Call(EditorAgentId, "edit_final_response",
                     [user_query |-> state.user_query,
                      final_draft |-> state.drafts[1],
                      debate_history |-> state.feedback_history])
    /\ pc' = "fe_agent"

FinalEditInvoke ==
    /\ calls' = Call(EditorAgentId, "edit_final_response",
                     [user_query |-> state.user_query,
                      final_draft |-> state.current_draft,
                      debate_history |-> state.feedback_history])
    /\ pc' = "fe_agent"

\* final_edit returning its content as current_draft too.
FinalEditCommit_sets_current_draft(r) ==
    /\ state' = ApplyUpdate(state, [final_response |-> r.content,
                                    current_draft |-> r.content])
    /\ pc' = "end"

\* return {"final_response": response.content}; final_edit's edge leads to END.
FinalEditCommit(r) ==
    /\ state' = ApplyUpdate(state, [final_response |-> r.content])
    /\ pc' = "end"

FinalEditEnter ==
    /\ pc = "final_edit"
    /\ Enter("final_edit")
    /\ IF config.ui_callback
       THEN /\ Emit("status", <<"Performing final edit...">>)
            /\ pc' = "fe_status"
            /\ UNCHANGED calls
       ELSE /\ FinalEditInvoke
            /\ UNCHANGED events
    /\ UNCHANGED <<config, reruns, other, replies, state, response, round, tasks, results, order,
                   fanouts, failure, returned>>

FinalEditStatusDone ==
    /\ pc = "fe_status"
    /\ FinalEditInvoke
    /\ UNCHANGED <<config, reruns, other, replies, state, response, round, tasks, results, order, events,
                   stages, fanouts, failure, returned>>

FinalEditAgentReturn(raw) ==
    /\ pc = "fe_agent"
    /\ response' = edit_final_response(raw)
    /\ IF config.ui_callback
       THEN /\ Emit("final_response", response')
            /\ pc' = "fe_notify"
            /\ UNCHANGED state
       ELSE /\ FinalEditCommit(response')
            /\ UNCHANGED events
    /\ replies' = SetKey(replies, Len(calls), raw)
    /\ UNCHANGED <<config, reruns, other, round, tasks, results, order, calls, stages, fanouts,
                   failure, returned>>

FinalEditNotifyDone ==
    /\ pc = "fe_notify"
    /\ FinalEditCommit(response)
    /\ UNCHANGED <<config, reruns, other, replies, response, round, tasks, results, order, events, calls,
                   stages, fanouts, failure, returned>>

\* run handing back the draft the editor was given.
RunReturn_returns_draft ==
    /\ pc = "end"
    /\ returned' = <<state.current_draft>>
    /\ pc' = "done"
    /\ UNCHANGED <<config, reruns, other, replies, state, response, round, tasks, results, order, events,
                   calls, stages, fanouts, failure>>

\* ---- run, lines 190-191: ainvoke returns the final state
RunReturn ==
    /\ pc = "end"
    /\ returned' = <<state.final_response>>
    /\ pc' = "done"
    /\ UNCHANGED <<config, reruns, other, replies, state, response, round, tasks, results, order, events,
                   calls, stages, fanouts, failure>>

\* A failure the node catches, ending the graph with the state as it is.
AgentFail_swallowed ==
    /\ pc \in AgentPcs
    /\ pc' = "end"
    /\ failure' = <<"agent", AwaitedAgent(pc)>>
    /\ UNCHANGED <<config, reruns, other, replies, state, response, round, tasks, results, order, events,
                   calls, stages, fanouts, returned>>

\* ---- failures: nothing in workflow.py catches; the node, the graph and run raise.
\* A failed model call of the Drafter or the Editor made once more before the
\* failure is raised.
AgentFail_retry_once ==
    /\ pc \in AgentPcs
    /\ IF Len(calls) >= 2 /\ calls[Len(calls)] = calls[Len(calls) - 1]
       THEN /\ pc' = "failed"
            /\ failure' = <<"agent", AwaitedAgent(pc)>>
            /\ UNCHANGED calls
       ELSE /\ calls' = Append(calls, calls[Len(calls)])
            /\ UNCHANGED <<pc, failure>>
    /\ UNCHANGED <<config, reruns, other, replies, state, response, round, tasks, results, order, events,
                   stages, fanouts, returned>>

AgentFail ==
    /\ pc \in AgentPcs
    /\ pc' = "failed"
    /\ failure' = <<"agent", AwaitedAgent(pc)>>
    /\ UNCHANGED <<config, reruns, other, replies, state, response, round, tasks, results, order, events,
                   calls, stages, fanouts, returned>>

\* A failure of the callback that is noted and does not stop the run.
CallbackFail_ignored ==
    /\ pc \in CallbackPcs
    /\ pc' = pc
    /\ failure' = <<"callback">>
    /\ UNCHANGED <<config, reruns, other, replies, state, response, round, tasks, results, order, events,
                   calls, stages, fanouts, returned>>

CallbackFail ==
    /\ pc \in CallbackPcs
    /\ pc' = "failed"
    /\ failure' = <<"callback">>
    /\ UNCHANGED <<config, reruns, other, replies, state, response, round, tasks, results, order, events,
                   calls, stages, fanouts, returned>>

\* The caller cancels run while it is suspended; cancelling gather cancels
\* the tasks still running.
Cancel ==
    /\ pc \in AwaitPcs
    /\ pc' = "failed"
    /\ failure' = <<"cancelled">>
    /\ tasks' = [i \in DOMAIN tasks |->
                    IF pc = "db_gather" /\ tasks[i] = "inflight"
                    THEN "cancelled" ELSE tasks[i]]
    /\ UNCHANGED <<config, reruns, other, replies, state, response, round, results, order, events, calls,
                   stages, fanouts, returned>>

\* ------------------------------------------------------------ specification

\* A CouncilWorkflow built from a valid CouncilConfig (debate_rounds >= 1), with
\* or without a ui_callback, before run is called.
Init ==
    /\ config \in { c \in [debate_rounds : 1 .. MaxRounds, n_members : 0 .. MaxMembers,
                           ui_callback : BOOLEAN] :
                        c.debate_rounds * c.n_members <= MaxReviews }
    /\ state = [user_query |-> <<>>, current_draft |-> <<>>, drafts |-> <<>>,
                feedback_history |-> <<>>, current_round |-> 0,
                max_rounds |-> config.debate_rounds, final_response |-> <<>>,
                ui_callback |-> config.ui_callback]
    /\ pc = "idle"
    /\ response = None
    /\ round = 0
    /\ tasks = NoTasks
    /\ results = NoTasks
    /\ order = <<>>
    /\ events = <<>>
    /\ calls = <<>>
    /\ stages = <<>>
    /\ fanouts = 0
    /\ failure = NoFailure
    /\ returned = <<>>
    /\ replies = NoReplies
    /\ reruns = 0
    /\ other = NoFrame

Next ==
    \/ \E q \in Queries : Run(q)
    \/ CreateDraftEnter
    \/ CreateDraftStatusDone
    \/ \E raw \in RawReplies : CreateDraftAgentReturn(raw)
    \/ CreateDraftNotifyDone
    \/ DebateEnter
    \/ DebateStatusDone
    \/ \E i \in Members, raw \in RawReplies : ReviewerReturn(i, raw)
    \/ \E i \in Members : ReviewerFail(i)
    \/ GatherJoin
    \/ DebateNotifyDone
    \/ UpdateEnter
    \/ UpdateStatusDone
    \/ \E raw \in RawReplies : UpdateAgentReturn(raw)
    \/ UpdateNotifyDone
    \/ FinalEditEnter
    \/ FinalEditStatusDone
    \/ \E raw \in RawReplies : FinalEditAgentReturn(raw)
    \/ FinalEditNotifyDone
    \/ RunReturn
    \/ AgentFail
    \/ CallbackFail
    \/ Cancel

Spec == Init /\ [][Next]_vars

\* The steps of a run in which no agent call and no callback fails and
\* nobody cancels the run.
NextOk ==
    \/ \E q \in Queries : Run(q)
    \/ CreateDraftEnter
    \/ CreateDraftStatusDone
    \/ \E raw \in RawReplies : CreateDraftAgentReturn(raw)
    \/ CreateDraftNotifyDone
    \/ DebateEnter
    \/ DebateStatusDone
    \/ \E i \in Members, raw \in RawReplies : ReviewerReturn(i, raw)
    \/ GatherJoin
    \/ DebateNotifyDone
    \/ UpdateEnter
    \/ UpdateStatusDone
    \/ \E raw \in RawReplies : UpdateAgentReturn(raw)
    \/ UpdateNotifyDone
    \/ FinalEditEnter
    \/ FinalEditStatusDone
    \/ \E raw \in RawReplies : FinalEditAgentReturn(raw)
    \/ FinalEditNotifyDone
    \/ RunReturn


\* ---------------------------------------------- should_continue_debate alone

\* should_continue_debate handed a state with any current_round and max_rounds:
\* calls records the state it was given, returned what it answered.
InitPred ==
    /\ config = [debate_rounds |-> 1, n_members |-> 0, ui_callback |-> FALSE]
    /\ state \in [user_query : Queries, current_draft : {<<>>}, drafts : {<<>>},
                  feedback_history : {<<>>},
                  current_round : -PredRange .. PredRange,
                  max_rounds : -PredRange .. PredRange,
                  final_response : {<<>>}, ui_callback : {FALSE}]
    /\ pc = "pred"
    /\ response = None
    /\ round = 0
    /\ tasks = NoTasks
    /\ results = NoTasks
    /\ order = <<>>
    /\ events = <<>>
    /\ calls = <<[agent_id |-> <<"workflow">>, op |-> "should_continue_debate",
                  args |-> state]>>
    /\ stages = <<>>
    /\ fanouts = 0
    /\ failure = NoFailure
    /\ returned = <<>>
    /\ replies = NoReplies
    /\ reruns = 0
    /\ other = NoFrame

ApplyPredicate ==
    /\ pc = "pred"
    /\ returned' = <<should_continue_debate(state.current_round, state.max_rounds)>>
    /\ pc' = "pred_done"
    /\ UNCHANGED <<config, reruns, other, replies, state, response, round, tasks, results, order, events,
                   calls, stages, fanouts, failure>>

NextPred == ApplyPredicate

SpecPred == InitPred /\ [][NextPred]_vars

\* ------------------------------------------------------------------ claims

R == config.debate_rounds
N == config.n_members

DebatePcs == {"council_debate", "db_status", "db_gather", "db_notify"}
UpdatePcs == {"update_draft", "ud_status", "ud_agent", "ud_notify"}
FinalEditPcs == {"final_edit", "fe_status", "fe_agent", "fe_notify"}

\* How many times node was entered.
Entered(node) == Cardinality({ k \in 1 .. Len(stages) : stages[k] = node })

\* C1: in a run in which nothing fails, when final_edit is reached (and from
\* then on) feedback_history has exactly debate_rounds entries and gather was
\* called exactly debate_rounds times, whatever the number of members; before
\* that neither count exceeds debate_rounds.
C1_ExactlyRRounds ==
    /\ fanouts <= R
    /\ Len(state.feedback_history) <= fanouts
    /\ pc \in FinalEditPcs \cup {"end", "done"} =>
          /\ Len(state.feedback_history) = R
          /\ fanouts = R
          /\ Entered("council_debate") = R

C1_Witness ==
    /\ pc = "final_edit"
    /\ R = 3
    /\ N = 0
    /\ Len(state.feedback_history) = 3
    /\ fanouts = 3

\* C2: should_continue_debate answers "continue" exactly when
\* current_round < max_rounds and "end" exactly when current_round >= max_rounds,
\* and leaves the state it was given as it was.
C2_StopPredicate ==
    pc = "pred_done" =>
        /\ (returned = <<"continue">>) <=> (state.current_round < state.max_rounds)
        /\ (returned = <<"end">>) <=> (state.current_round >= state.max_rounds)
        /\ state = calls[1].args

C2_Witness ==
    /\ pc = "pred_done"
    /\ state.current_round = 0
    /\ state.max_rounds = 1
    /\ returned = <<"continue">>

\* C3: every round of feedback_history has one element per configured member,
\* the i-th with the i-th member's agent_id; and the round just recorded holds,
\* at position i, the content the i-th member's call returned, in whatever
\* order the calls finished.
C3_ConfiguredOrder ==
    /\ \A r \in 1 .. Len(state.feedback_history) :
          /\ Len(state.feedback_history[r]) = N
          /\ \A i \in 1 .. N :
                state.feedback_history[r][i].agent_id = CouncilMemberId(i)
    /\ (fanouts >= 1 /\ Len(state.feedback_history) = fanouts) =>
          \A i \in 1 .. N :
             state.feedback_history[fanouts][i].feedback = results[i].content

C3_Witness ==
    /\ N = 2
    /\ order = <<2, 1>>
    /\ Len(state.feedback_history) = 1
    /\ fanouts = 1
    /\ state.feedback_history[1][1].agent_id = CouncilMemberId(1)
    /\ state.feedback_history[1][1].feedback # state.feedback_history[1][2].feedback

\* C4: when final_edit is reached, update_draft has run exactly
\* debate_rounds - 1 times and drafts has exactly debate_rounds elements; before
\* that update_draft has run at most debate_rounds - 1 times.
C4_UpdatesAndDrafts ==
    /\ Entered("update_draft") <= R - 1
    /\ pc \in FinalEditPcs \cup {"end", "done"} =>
          /\ Entered("update_draft") = R - 1
          /\ Len(state.drafts) = R

C4_Witness ==
    /\ pc = "final_edit"
    /\ R = 3
    /\ Entered("update_draft") = 2
    /\ Len(state.drafts) = 3

\* The k-th notification of a run with a callback and debate_rounds = R.
ExpectedType(k) ==
    IF k = 1 THEN "status"
    ELSE IF k = 2 THEN "draft_created"
    ELSE LET j == k - 3
         IN  IF j % 4 = 0 \/ j % 4 = 2 THEN "status"
             ELSE IF j % 4 = 1 THEN "feedback_round"
             ELSE IF j \div 4 < R - 1 THEN "draft_updated"
             ELSE "final_response"

\* C5: with a callback the notifications made so far are always a prefix of
\* status, draft_created, (status, feedback_round(r), status, draft_updated) for
\* r = 1 .. R-1, status, feedback_round(R), status, final_response, and a run
\* that is done has made all 4R + 2 of them; without a callback there is none.
C5_EventSequence ==
    /\ ~config.ui_callback => events = <<>>
    /\ Len(events) <= 4 * R + 2
    /\ \A k \in 1 .. Len(events) :
          /\ events[k].type = ExpectedType(k)
          /\ events[k].type = "feedback_round" =>
                events[k].payload.round = ((k - 3) \div 4) + 1
    /\ (pc = "done" /\ config.ui_callback) => Len(events) = 4 * R + 2

C5_Witness ==
    /\ pc = "done"
    /\ config.ui_callback
    /\ R = 2
    /\ N = 2
    /\ Len(events) = 10
    /\ [k \in 1 .. 10 |-> events[k].type] =
          <<"status", "draft_created", "status", "feedback_round", "status",
            "draft_updated", "status", "feedback_round", "status", "final_response">>
    /\ events[8].payload.round = 2

\* A member's call of the latest fan-out failed or was cancelled.
RoundBroken == \E i \in DOMAIN tasks : tasks[i] \in {"failed", "cancelled"}

\* C6: a round is recorded only when every member's call of it returned: once
\* a call of round r has failed or been cancelled the run has failed,
\* feedback_history and current_round are those of before round r, no
\* feedback_round(r) was notified and no stage was entered after that
\* council_debate.
C6_NoPartialRound ==
    /\ RoundBroken =>
          /\ pc = "failed"
          /\ Len(state.feedback_history) = round - 1
          /\ state.current_round = round - 1
          /\ \A k \in 1 .. Len(events) :
                events[k].type = "feedback_round" => events[k].payload.round < round
          /\ stages[Len(stages)] = "council_debate"
          /\ Entered("council_debate") = round
          /\ Entered("final_edit") = 0
    /\ (fanouts >= 1 /\ Len(state.feedback_history) = fanouts) =>
          \A i \in DOMAIN tasks : tasks[i] = "ok"

C6_Witness ==
    /\ pc = "failed"
    /\ N = 2
    /\ round = 2
    /\ tasks[1] = "ok"
    /\ tasks[2] = "failed"
    /\ order = <<1, 2>>
    /\ Len(state.feedback_history) = 1

AgentFailed == failure[1] = "agent"

\* C7: once an agent invocation has failed the run has failed with that
\* failure, final_response is still empty and nothing was returned, and from
\* then on no stage is entered, no agent operation is invoked, no notification
\* is made and the state is not written.
C7_FailurePropagates ==
    /\ [](AgentFailed =>
            /\ pc = "failed"
            /\ state.final_response = <<>>
            /\ returned = <<>>)
    /\ [][AgentFailed =>
            UNCHANGED <<pc, failure, state, events, calls, stages, fanouts,
                        returned>>]_vars
    /\ [][(pc \in AgentPcs /\ pc' = "failed" /\ failure' # <<"cancelled">>) =>
            failure' = <<"agent", AwaitedAgent(pc)>>]_vars

C7_Witness ==
    /\ pc = "failed"
    /\ failure = <<"agent", CouncilMemberId(1)>>
    /\ N = 2
    /\ tasks[2] = "ok"
    /\ order = <<1, 2>>
    /\ Len(state.drafts) = 2

\* The initial draft is committed and final_edit has not started.
BeforeFinalEdit == Len(state.drafts) >= 1 /\ Entered("final_edit") = 0

\* C8 as stated: len(drafts) == 1 + len(feedback_history) from the commit of
\* the initial draft until final_edit starts.
C8_AsStated ==
    BeforeFinalEdit => Len(state.drafts) = 1 + Len(state.feedback_history)

\* C8 as amended: from the commit of the initial draft until final_edit
\* starts, len(drafts) == 1 + len(feedback_history) while a council_debate
\* stage is due or running, len(drafts) == len(feedback_history) from that
\* stage's commit until the following update_draft commits (or final_edit
\* starts), and len(feedback_history) <= len(drafts) <= 1 + len(feedback_history)
\* throughout.
C8_DraftsVersusRounds ==
    BeforeFinalEdit =>
        /\ pc \in DebatePcs => Len(state.drafts) = 1 + Len(state.feedback_history)
        /\ pc \in UpdatePcs \cup {"final_edit"} =>
              Len(state.drafts) = Len(state.feedback_history)
        /\ Len(state.feedback_history) <= Len(state.drafts)
        /\ Len(state.drafts) <= 1 + Len(state.feedback_history)

C8_Witness ==
    /\ pc = "update_draft"
    /\ Len(state.drafts) = 2
    /\ Len(state.feedback_history) = 2

\* C9: 0 <= current_round <= max_rounds in every state of a run, max_rounds >= 1,
\* and current_round == max_rounds from the start of final_edit to the end.
C9_RoundBound ==
    pc # "idle" =>
        /\ state.max_rounds >= 1
        /\ 0 <= state.current_round
        /\ state.current_round <= state.max_rounds
        /\ pc \in FinalEditPcs \cup {"end", "done"} =>
              state.current_round = state.max_rounds

C9_Witness ==
    /\ pc = "done"
    /\ state.max_rounds = 3
    /\ state.current_round = 3

\* The Editor's invocation, the last of calls while it is awaited.
EditorCall == calls[Len(calls)]

\* C10 as stated: the draft passed to the Editor is the output of an
\* update_draft stage, for every max_rounds >= 1.
C10_AsStated ==
    pc = "fe_agent" =>
        /\ Entered("update_draft") >= 1
        /\ "revision" \in DOMAIN response.metadata
        /\ EditorCall.args.final_draft = response.content

\* C10 as amended: for max_rounds >= 2 the draft passed to the Editor is the
\* output of the last of the max_rounds - 1 update_draft stages; for max_rounds = 1
\* no update_draft stage runs and the Editor is passed the initial draft.
C10_EditorDraft ==
    pc = "fe_agent" =>
        /\ EditorCall.op = "edit_final_response"
        /\ EditorCall.args.final_draft = response.content
        /\ EditorCall.args.final_draft = state.drafts[Len(state.drafts)]
        /\ state.max_rounds >= 2 =>
              /\ Entered("update_draft") = state.max_rounds - 1
              /\ "revision" \in DOMAIN response.metadata
        /\ state.max_rounds = 1 =>
              /\ Entered("update_draft") = 0
              /\ "revision" \notin DOMAIN response.metadata
              /\ Len(state.drafts) = 1

C10_Witness ==
    /\ pc = "fe_agent"
    /\ state.max_rounds = 2
    /\ N = 2
    /\ "revision" \in DOMAIN response.metadata
    /\ state.drafts[1] # state.drafts[2]
    /\ EditorCall.args.final_draft = state.drafts[2]

\* The edges of the graph between nodes.
StageEdges == { <<"create_draft", "council_debate">>,
                <<"council_debate", "update_draft">>,
                <<"council_debate", "final_edit">>,
                <<"update_draft", "council_debate">> }

\* C11: the nodes entered form a path from create_draft along the edges
\* create_draft -> council_debate, council_debate -> update_draft (taken when
\* current_round < max_rounds), council_debate -> final_edit (taken when
\* current_round >= max_rounds), update_draft -> council_debate; create_draft
\* and final_edit are entered at most once, final_edit only right after a
\* council_debate and as the last node; the end of final_edit leads to done,
\* and done has no successor.
C11_StageEdges ==
    /\ [](/\ \A k \in 1 .. Len(stages) :
               /\ k = 1 => stages[k] = "create_draft"
               /\ k > 1 => <<stages[k - 1], stages[k]>> \in StageEdges
               /\ stages[k] = "final_edit" => k = Len(stages)
          /\ Entered("create_draft") <= 1
          /\ Entered("final_edit") <= 1
          /\ pc = "update_draft" =>
                /\ stages[Len(stages)] = "council_debate"
                /\ state.current_round < state.max_rounds
          /\ pc = "final_edit" =>
                /\ stages[Len(stages)] = "council_debate"
                /\ state.current_round >= state.max_rounds
          /\ pc = "council_debate" =>
                stages[Len(stages)] \in {"create_draft", "update_draft"}
          /\ pc \in {"end", "done"} => stages[Len(stages)] = "final_edit")
    /\ [][pc = "end" => pc' = "done"]_vars
    /\ [][pc # "done"]_vars

C11_Witness ==
    /\ pc = "done"
    /\ stages = <<"create_draft", "council_debate", "update_draft",
                  "council_debate", "final_edit">>

\* ------------------------------------------------- two runs, interleaved

\* Everything one call of run owns: its CouncilState, where it is, its
\* locals, and what it did.
Frame ==
    [config |-> config, state |-> state, pc |-> pc, response |-> response,
     round |-> round, tasks |-> tasks, results |-> results, order |-> order,
     events |-> events, calls |-> calls, stages |-> stages, fanouts |-> fanouts,
     failure |-> failure, returned |-> returned, replies |-> replies]

\* A call of run that has not started, on a CouncilWorkflow configured by c.
IdleFrame(c) ==
    [config |-> c,
     state |-> [user_query |-> <<>>, current_draft |-> <<>>, drafts |-> <<>>,
                feedback_history |-> <<>>, current_round |-> 0,
                max_rounds |-> c.debate_rounds, final_response |-> <<>>,
                ui_callback |-> c.ui_callback],
     pc |-> "idle", response |-> None, round |-> 0, tasks |-> NoTasks,
     results |-> NoTasks, order |-> <<>>, events |-> <<>>, calls |-> <<>>,
     stages |-> <<>>, fanouts |-> 0, failure |-> NoFailure, returned |-> <<>>,
     replies |-> NoReplies]

\* The two runs with one CouncilState between them.
Switch_shares_state ==
    /\ other.pc # "none"
    /\ other' = Frame
    /\ state' = state
    /\ config' = other.config
    /\ pc' = other.pc
    /\ response' = other.response
    /\ round' = other.round
    /\ tasks' = other.tasks
    /\ results' = other.results
    /\ order' = other.order
    /\ events' = other.events
    /\ calls' = other.calls
    /\ stages' = other.stages
    /\ fanouts' = other.fanouts
    /\ failure' = other.failure
    /\ returned' = other.returned
    /\ replies' = other.replies
    /\ UNCHANGED reruns

\* The event loop turns from one run to the other: every await of a run
\* (line 190 and the awaits of the nodes) lets the other run step.  Each
\* call of run has its own initial_state dict, graph channels and coroutine
\* locals.
Switch ==
    /\ other.pc # "none"
    /\ other' = Frame
    /\ config' = other.config
    /\ state' = other.state
    /\ pc' = other.pc
    /\ response' = other.response
    /\ round' = other.round
    /\ tasks' = other.tasks
    /\ results' = other.results
    /\ order' = other.order
    /\ events' = other.events
    /\ calls' = other.calls
    /\ stages' = other.stages
    /\ fanouts' = other.fanouts
    /\ failure' = other.failure
    /\ returned' = other.returned
    /\ replies' = other.replies
    /\ UNCHANGED reruns

\* Bound on rounds times members of the configuration two interleaved runs
\* share.
TwoMaxReviews == 1

\* Two calls of run on one CouncilWorkflow, neither started.
InitTwo ==
    /\ config \in { c \in [debate_rounds : 1 .. MaxRounds, n_members : 0 .. MaxMembers,
                           ui_callback : BOOLEAN] :
                        c.debate_rounds * c.n_members <= TwoMaxReviews }
    /\ state = IdleFrame(config).state
    /\ pc = "idle"
    /\ response = None
    /\ round = 0
    /\ tasks = NoTasks
    /\ results = NoTasks
    /\ order = <<>>
    /\ events = <<>>
    /\ calls = <<>>
    /\ stages = <<>>
    /\ fanouts = 0
    /\ failure = NoFailure
    /\ returned = <<>>
    /\ replies = NoReplies
    /\ reruns = 0
    /\ other = IdleFrame(config)

\* A run that fails leaves its CouncilState behind like one that finishes
\* (Spec covers both), so the two runs take the non-failing steps.
NextTwo ==
    \/ NextOk
    \/ Switch

SpecTwo == InitTwo /\ [][NextTwo]_vars

\* The content generate_response makes of the k-th reply this run received.
ReplyContent(k) == split_summary(replies[k].content)[1]
\* The calls of a run come in the order drafter, members of round 1,
\* drafter, members of round 2, ..., editor.
DraftCall(j) == 1 + (j - 1) * (N + 1)
ReviewCall(r, i) == DraftCall(r) + i

\* C17: when two runs of one CouncilWorkflow interleave at their awaits, the
\* CouncilState of each holds exactly what the run's own stages committed
\* from the run's own query and the replies to its own calls, and each of
\* its calls is given values from that state only: what it would be if the
\* run were alone.
C17_RunsIsolated ==
    pc # "idle" =>
        /\ state.max_rounds = config.debate_rounds
        /\ state.current_round = Len(state.feedback_history)
        /\ \A k \in 1 .. Len(calls) :
               "user_query" \in DOMAIN calls[k].args =>
                   calls[k].args.user_query = state.user_query
        /\ \A j \in 1 .. Len(state.drafts) :
               /\ calls[DraftCall(j)].agent_id = DraftAgentId
               /\ state.drafts[j] = ReplyContent(DraftCall(j))
        /\ state.current_draft =
               IF state.drafts = <<>> THEN <<>> ELSE state.drafts[Len(state.drafts)]
        /\ \A r \in 1 .. Len(state.feedback_history) :
               state.feedback_history[r] =
                   [i \in 1 .. N |-> [agent_id |-> CouncilMemberId(i),
                                      feedback |-> ReplyContent(ReviewCall(r, i))]]
        /\ \A k \in 1 .. Len(calls) :
               calls[k].op = "provide_feedback" =>
                   calls[k].args.current_draft =
                       ReplyContent(DraftCall(((k - 1) \div (N + 1)) + 1))
        /\ \A k \in 1 .. Len(calls) :
               calls[k].op = "update_draft" =>
                   /\ calls[k].args.current_draft = ReplyContent(k - N - 1)
                   /\ calls[k].args.feedback =
                          [i \in 1 .. N |-> ReplyContent(k - N - 1 + i)]
        /\ state.final_response # <<>> =>
               /\ calls[Len(calls)].agent_id = EditorAgentId
               /\ state.final_response = ReplyContent(Len(calls))
        /\ returned # <<>> => returned = <<state.final_response>>

\* Both runs are in the middle of their debate, on different queries.
C17_Witness ==
    /\ pc = "db_gather"
    /\ other.pc = "db_gather"
    /\ other.state.user_query # state.user_query
    /\ other.state.current_draft # state.current_draft

\* ------------------------------------ the same run with and without callback

\* Bound on rounds times members of the configuration of the paired runs.
PairMaxReviews == 2

\* Two workflows that differ in ui_callback only, neither run yet.
InitPair ==
    /\ config \in { c \in [debate_rounds : 1 .. MaxRounds, n_members : 0 .. MaxMembers,
                           ui_callback : BOOLEAN] :
                        c.debate_rounds * c.n_members <= PairMaxReviews }
    /\ state = IdleFrame(config).state
    /\ pc = "idle"
    /\ response = None
    /\ round = 0
    /\ tasks = NoTasks
    /\ results = NoTasks
    /\ order = <<>>
    /\ events = <<>>
    /\ calls = <<>>
    /\ stages = <<>>
    /\ fanouts = 0
    /\ failure = NoFailure
    /\ returned = <<>>
    /\ replies = NoReplies
    /\ reruns = 0
    /\ other = IdleFrame([config EXCEPT !.ui_callback = ~@])

\* Both runs are given the same query.
SameQuery(q) == other.pc # "idle" => other.state.user_query = q
\* Both runs' agents answer the same: the k-th call gets the reply the k-th
\* call of the other run got, if that one has been answered.
Scripted(k, raw) == k \in DOMAIN other.replies => other.replies[k] = raw

\* The steps of NextOk, with query and replies paired, and the turn from one
\* run to the other.
NextPair ==
    \/ \E q \in Queries : SameQuery(q) /\ Run(q)
    \/ CreateDraftEnter
    \/ CreateDraftStatusDone
    \/ \E raw \in RawReplies : Scripted(Len(calls), raw) /\ CreateDraftAgentReturn(raw)
    \/ CreateDraftNotifyDone
    \/ DebateEnter
    \/ DebateStatusDone
    \/ \E i \in Members, raw \in RawReplies :
           Scripted(CallIndex(i), raw) /\ ReviewerReturn(i, raw)
    \/ GatherJoin
    \/ DebateNotifyDone
    \/ UpdateEnter
    \/ UpdateStatusDone
    \/ \E raw \in RawReplies : Scripted(Len(calls), raw) /\ UpdateAgentReturn(raw)
    \/ UpdateNotifyDone
    \/ FinalEditEnter
    \/ FinalEditStatusDone
    \/ \E raw \in RawReplies : Scripted(Len(calls), raw) /\ FinalEditAgentReturn(raw)
    \/ FinalEditNotifyDone
    \/ RunReturn
    \/ Switch

SpecPair == InitPair /\ [][NextPair]_vars

\* Where a run stands between two nodes.
BoundaryPcs == {"idle", "create_draft", "council_debate", "update_draft", "final_edit",
                "end", "done"}
\* The number of nodes the run f has completed.
Completed(f) == IF f.pc \in BoundaryPcs THEN Len(f.stages) ELSE Len(f.stages) - 1
\* The CouncilState s without its ui_callback entry.
RoundState(s) == [k \in (DOMAIN s) \ {"ui_callback"} |-> s[k]]
Shorter(a, b) == IF Len(a) <= Len(b) THEN Len(a) ELSE Len(b)

\* C12: a run with a callback whose invocations all complete and a run with
\* no callback, on the same query and with the same agent replies, enter the
\* same nodes in the same order, make the same agent calls with the same
\* arguments, hold the same state (ui_callback aside) after every node, and
\* return the same final_response.
C12_CallbackTransparent ==
    /\ config.ui_callback # other.config.ui_callback
    /\ \A k \in 1 .. Shorter(stages, other.stages) : stages[k] = other.stages[k]
    /\ \A k \in 1 .. Shorter(calls, other.calls) : calls[k] = other.calls[k]
    /\ (pc # "idle" /\ other.pc # "idle" /\ Completed(Frame) = Completed(other)) =>
           RoundState(state) = RoundState(other.state)
    /\ (pc = "done" /\ other.pc = "done") => returned = other.returned

\* Both runs are over after two rounds with a member; one of them notified
\* its callback, the other did not.
C12_Witness ==
    /\ pc = "done"
    /\ other.pc = "done"
    /\ stages = <<"create_draft", "council_debate", "update_draft", "council_debate",
                  "final_edit">>
    /\ other.stages = stages
    /\ N = 1
    /\ events # <<>>
    /\ other.events = <<>>
    /\ returned # <<state.drafts[1]>>

\* C13, as stated: a run has not failed while a reviewer call of it is still
\* outstanding, and no call is outstanding once council_debate is over; the
\* debate ends only when each of the N calls has returned or failed.
C13_AsStated ==
    (\E i \in DOMAIN tasks : tasks[i] = "inflight") => pc = "db_gather"

\* The round whose fan-out made the k-th call of the run.
RoundOfCall(k) == ((k - 1) \div (N + 1)) + 1

\* C14: the provide_feedback calls of one round are all given the same
\* current_draft, the same user_query and that round's number, and nothing
\* else (no feedback of a fellow member); while they are in flight they hold
\* the state's current_draft as it was when the stage was entered; no step of
\* council_debate changes current_draft, and the state changes only once
\* every call of the round has returned.
C14_SameSnapshot ==
    /\ [](\A k \in 1 .. Len(calls) :
              calls[k].op = "provide_feedback" =>
                  /\ DOMAIN calls[k].args = {"user_query", "current_draft", "round_number"}
                  /\ calls[k].args.round_number = RoundOfCall(k)
                  /\ \A l \in 1 .. Len(calls) :
                         (calls[l].op = "provide_feedback" /\ RoundOfCall(l) = RoundOfCall(k))
                             => calls[l].args = calls[k].args)
    /\ [](pc = "db_gather" =>
              \A i \in Members :
                  /\ calls[CallIndex(i)].agent_id = CouncilMemberId(i)
                  /\ calls[CallIndex(i)].args =
                         [user_query |-> state.user_query,
                          current_draft |-> state.current_draft,
                          round_number |-> state.current_round + 1])
    /\ [][(pc \in DebatePcs) => state'.current_draft = state.current_draft]_vars
    /\ [][(pc = "db_gather" /\ state' # state) => \A i \in DOMAIN tasks : tasks[i] = "ok"]_vars

\* Round 2 of two members: one has answered, the other is still in flight.
C14_Witness ==
    /\ pc = "db_gather"
    /\ round = 2
    /\ tasks = <<"ok", "inflight">>
    /\ state.current_draft # state.drafts[1]

\* C15: final_response is empty in every state before final_edit commits; the
\* only step that writes it is the commit of final_edit, which happens at
\* most once in a run and stores the content of the Editor's result; and
\* what run returns is that content.
C15_FinalResponseOnce ==
    /\ []((pc \notin {"end", "done"}) => (state.final_response = <<>> /\ returned = <<>>))
    /\ []((pc \in {"end", "done"}) =>
              /\ response.agent_id = EditorAgentId
              /\ state.final_response = response.content
              /\ response.content = ReplyContent(Len(calls))
              /\ Entered("final_edit") = 1)
    /\ [](pc = "done" => returned = <<response.content>>)
    /\ [][state'.final_response # state.final_response =>
              /\ pc \in {"fe_agent", "fe_notify"}
              /\ pc' = "end"
              /\ state.final_response = <<>>]_vars
    /\ [][(pc \in {"end", "done"}) => UNCHANGED state]_vars

\* run has returned an Editor content that differs from the last draft.
C15_Witness ==
    /\ pc = "done"
    /\ returned = <<state.final_response>>
    /\ state.final_response # <<>>
    /\ state.final_response # state.current_draft

\* ------------------------------------------- runs in sequence on one instance

\* Bound on the calls of run that follow the first one.
MaxReruns == 1

\* run called again with the previous run's final state as its starting point.
RunAgain_keeps_state(user_query) ==
    /\ pc \in {"done", "failed"}
    /\ reruns < MaxReruns
    /\ reruns' = reruns + 1
    /\ other' = [pc |-> pc]
    /\ state' = [state EXCEPT !.user_query = user_query]
    /\ pc' = "create_draft"
    /\ response' = None
    /\ round' = 0
    /\ tasks' = NoTasks
    /\ results' = NoTasks
    /\ order' = <<>>
    /\ events' = <<>>
    /\ calls' = <<>>
    /\ stages' = <<>>
    /\ fanouts' = 0
    /\ failure' = NoFailure
    /\ returned' = <<>>
    /\ replies' = NoReplies
    /\ UNCHANGED config

\* run is called again on the same CouncilWorkflow after the previous call
\* returned or raised (simple_cli.py line 197 in its query loop).  The
\* instance keeps config, agents and the compiled graph; the call builds its
\* initial_state anew and its coroutine has new locals.  The logs of calls,
\* nodes, events and replies are kept per run; other remembers how the
\* previous run ended.  Tasks a failed run left running hold only their own
\* result and are followed no further.
RunAgain(user_query) ==
    /\ pc \in {"done", "failed"}
    /\ reruns < MaxReruns
    /\ reruns' = reruns + 1
    /\ other' = [pc |-> pc]
    /\ state' = InitialState(user_query)
    /\ pc' = "create_draft"
    /\ response' = None
    /\ round' = 0
    /\ tasks' = NoTasks
    /\ results' = NoTasks
    /\ order' = <<>>
    /\ events' = <<>>
    /\ calls' = <<>>
    /\ stages' = <<>>
    /\ fanouts' = 0
    /\ failure' = NoFailure
    /\ returned' = <<>>
    /\ replies' = NoReplies
    /\ UNCHANGED config

NextSeq ==
    \/ Next
    \/ \E q \in Queries : RunAgain(q)

SpecSeq == Init /\ [][NextSeq]_vars

\* C16: every call of run on the instance, the first and each later one,
\* also after a run that failed, starts its first node on a state with no
\* drafts, no feedback, round 0 and empty current_draft and final_response;
\* every draft and feedback entry it holds comes from a reply to one of its
\* own calls; and when it reaches final_edit it holds exactly debate_rounds
\* feedback entries and debate_rounds drafts.
C16_FreshRuns ==
    /\ pc = "create_draft" =>
           /\ state.drafts = <<>>
           /\ state.feedback_history = <<>>
           /\ state.current_round = 0
           /\ state.current_draft = <<>>
           /\ state.final_response = <<>>
           /\ state.max_rounds = R
    /\ pc # "idle" =>
           /\ Len(state.drafts) <= Entered("create_draft") + Entered("update_draft")
           /\ Len(state.feedback_history) <= Entered("council_debate")
           /\ \A j \in 1 .. Len(state.drafts) : state.drafts[j] = ReplyContent(DraftCall(j))
           /\ \A r \in 1 .. Len(state.feedback_history), i \in 1 .. N :
                  state.feedback_history[r][i].feedback = ReplyContent(ReviewCall(r, i))
    /\ (pc \in FinalEditPcs \cup {"end", "done"}) =>
           /\ Len(state.feedback_history) = R
           /\ Len(state.drafts) = R
           /\ state.current_round = R

\* A second run has finished two rounds after the first run failed.
C16_Witness ==
    /\ reruns = 1
    /\ other.pc = "failed"
    /\ pc = "done"
    /\ R = 2
    /\ N = 1

\* ----------------------------------------------------- split_summary alone

\* Bound on the length of a reply, in pieces.
MaxTextLen == 4
\* The pieces a reply is made of: a word, whitespace, the marker.
Pieces == {"a", " ", "\n", "Summary:"}
Texts == UNION { [1 .. n -> Pieces] : n \in 0 .. MaxTextLen }

\* generate_response about to split a reply of any text: replies holds the
\* reply, returned what split_summary gives, response the AgentResponse.
InitSplit ==
    /\ config = [debate_rounds |-> 1, n_members |-> 0, ui_callback |-> FALSE]
    /\ state = IdleFrame(config).state
    /\ pc = "split"
    /\ response = None
    /\ round = 0
    /\ tasks = NoTasks
    /\ results = NoTasks
    /\ order = <<>>
    /\ events = <<>>
    /\ calls = <<>>
    /\ stages = <<>>
    /\ fanouts = 0
    /\ failure = NoFailure
    /\ returned = <<>>
    /\ \E t \in Texts : replies = SetKey(NoReplies, 1, [content |-> t, usage |-> NoUsage])
    /\ reruns = 0
    /\ other = NoFrame

ApplySplit ==
    /\ pc = "split"
    /\ returned' = <<split_summary(replies[1].content)>>
    /\ response' = create_initial_draft(replies[1])
    /\ pc' = "split_done"
    /\ UNCHANGED <<config, reruns, other, replies, state, round, tasks, results, order, events,
                   calls, stages, fanouts, failure>>

NextSplit == ApplySplit

SpecSplit == InitSplit /\ [][NextSplit]_vars

\* t is s without its leading and trailing whitespace.
IsTrimOf(t, s) ==
    \E a, b \in 0 .. Len(s) :
        /\ a + b <= Len(s)
        /\ \A i \in 1 .. a : IsSpace(s[i])
        /\ \A i \in (Len(s) - b + 1) .. Len(s) : IsSpace(s[i])
        /\ t = SubSeq(s, a + 1, Len(s) - b)
        /\ t # <<>> => (~IsSpace(t[1]) /\ ~IsSpace(t[Len(t)]))

\* The reply split_summary was given, the place of its last marker, and the
\* parts before and after it.
SplitText == replies[1].content
LastMarker == CHOOSE k \in MarkerAt(SplitText) : \A j \in MarkerAt(SplitText) : j <= k
BeforeMarker == SubSeq(SplitText, 1, LastMarker - 1)
AfterMarker == SubSeq(SplitText, LastMarker + 1, Len(SplitText))

\* C18, as stated: for a text with the marker, content is the trimmed part
\* before the last marker and summary the trimmed part after it, and summary
\* is not empty; for a text without it, summary is empty and content the
\* trimmed text.
C18_AsStated ==
    pc = "split_done" =>
        IF MarkerAt(SplitText) # {}
        THEN /\ IsTrimOf(returned[1][1], BeforeMarker)
             /\ IsTrimOf(returned[1][2], AfterMarker)
             /\ returned[1][2] # <<>>
        ELSE /\ returned[1][2] = <<>>
             /\ IsTrimOf(returned[1][1], SplitText)

\* C18, amended: for a text with the marker, content is the trimmed part
\* before the last marker and summary the trimmed part after it, which is
\* empty exactly when nothing but whitespace follows the last marker; for a
\* text without the marker, summary is empty and content the trimmed text.
\* The AgentResponse carries the content, and the summary when it is not empty.
C18_SplitAtLastMarker ==
    pc = "split_done" =>
        /\ IF MarkerAt(SplitText) # {}
           THEN /\ IsTrimOf(returned[1][1], BeforeMarker)
                /\ IsTrimOf(returned[1][2], AfterMarker)
                /\ returned[1][2] = <<>> <=>
                       \A i \in 1 .. Len(AfterMarker) : IsSpace(AfterMarker[i])
           ELSE /\ returned[1][2] = <<>>
                /\ IsTrimOf(returned[1][1], SplitText)
        /\ response.content = returned[1][1]
        /\ "summary" \in DOMAIN response.metadata <=> returned[1][2] # <<>>
        /\ "summary" \in DOMAIN response.metadata =>
               response.metadata["summary"] = returned[1][2]

\* A text with two markers was split: the first marker stays in the content.
C18_Witness ==
    /\ pc = "split_done"
    /\ Cardinality(MarkerAt(SplitText)) = 2
    /\ returned[1][2] = <<"a">>
    /\ returned[1][1] = <<"Summary:">>

\* ------------------------------------------------------------------ liveness

\* A run in which every agent call and every callback returns and none fails:
\* each await of the run is resumed in the end.
SpecLive == Init /\ [][NextOk]_vars /\ WF_vars(NextOk)

\* C19: for every debate_rounds >= 1 and every number of members, if every
\* agent call and every callback invocation returns without failure, run
\* reaches its end and returns.
C19_RunCompletes == <>(pc = "done" /\ returned # <<>>)

\* A run of three rounds with two members has returned.
C19_Witness ==
    /\ pc = "done"
    /\ R = 3
    /\ N = 2
    /\ Entered("council_debate") = 3
    /\ failure = NoFailure

\* ------------------------------------------------- building the configuration

\* Field(default=3, ge=1) of CouncilConfig.debate_rounds.
DefaultDebateRounds == 3
MinDebateRounds == 1
\* How far below 1 the debate_rounds given to CouncilConfig go.
ConfigRange == 2

\* The keyword arguments CouncilConfig is called with: debate_rounds given,
\* in range or not, or left out.
ConfigData ==
    [debate_rounds : (1 - ConfigRange) .. MaxRounds, n_members : 0 .. MaxMembers,
     ui_callback : BOOLEAN]
    \cup [n_members : 0 .. MaxMembers, ui_callback : BOOLEAN]

\* The debate_rounds the field validation sees for the data d.
GivenRounds(d) ==
    IF "debate_rounds" \in DOMAIN d THEN d.debate_rounds ELSE DefaultDebateRounds

\* No CouncilConfig and no CouncilWorkflow yet: config holds the data the
\* configuration is about to be built from.
InitConfig ==
    /\ config \in { d \in ConfigData : GivenRounds(d) * d.n_members <= MaxReviews }
    /\ state = [user_query |-> <<>>, current_draft |-> <<>>, drafts |-> <<>>,
                feedback_history |-> <<>>, current_round |-> 0,
                max_rounds |-> 0, final_response |-> <<>>,
                ui_callback |-> FALSE]
    /\ pc = "unconfigured"
    /\ response = None
    /\ round = 0
    /\ tasks = NoTasks
    /\ results = NoTasks
    /\ order = <<>>
    /\ events = <<>>
    /\ calls = <<>>
    /\ stages = <<>>
    /\ fanouts = 0
    /\ failure = NoFailure
    /\ returned = <<>>
    /\ replies = NoReplies
    /\ reruns = 0
    /\ other = NoFrame

\* CouncilConfig(...) accepting every debate_rounds from 0 up.
ConstructConfig_ge_zero ==
    /\ pc = "unconfigured"
    /\ IF GivenRounds(config) >= 0
       THEN /\ config' = [debate_rounds |-> GivenRounds(config),
                          n_members |-> config.n_members,
                          ui_callback |-> config.ui_callback]
            /\ pc' = "configured"
            /\ UNCHANGED failure
       ELSE /\ pc' = "config_error"
            /\ failure' = <<"validation">>
            /\ UNCHANGED config
    /\ UNCHANGED <<reruns, other, replies, state, response, round, tasks, results, order, events,
                   calls, stages, fanouts, returned>>

\* CouncilConfig(...): pydantic fills in the default and validates ge=1 when
\* the object is constructed; a ValidationError leaves no configuration.
ConstructConfig ==
    /\ pc = "unconfigured"
    /\ IF GivenRounds(config) >= MinDebateRounds
       THEN /\ config' = [debate_rounds |-> GivenRounds(config),
                          n_members |-> config.n_members,
                          ui_callback |-> config.ui_callback]
            /\ pc' = "configured"
            /\ UNCHANGED failure
       ELSE /\ pc' = "config_error"
            /\ failure' = <<"validation">>
            /\ UNCHANGED config
    /\ UNCHANGED <<reruns, other, replies, state, response, round, tasks, results, order, events,
                   calls, stages, fanouts, returned>>

\* CouncilWorkflow(config, ui_callback)
BuildWorkflow ==
    /\ pc = "configured"
    /\ state' = IdleFrame(config).state
    /\ pc' = "idle"
    /\ UNCHANGED <<config, reruns, other, replies, response, round, tasks, results, order, events,
                   calls, stages, fanouts, failure, returned>>

NextConfig ==
    \/ ConstructConfig
    \/ BuildWorkflow
    \/ Next

SpecConfig == InitConfig /\ [][NextConfig]_vars

\* C20: data whose debate_rounds is below 1 is rejected when the
\* configuration is constructed: no workflow is built from it, no run
\* starts and no agent is called; every configuration that exists, every
\* workflow built and every run has debate_rounds, max_rounds >= 1.
C20_RoundsValidated ==
    /\ (pc = "unconfigured" /\ GivenRounds(config) < 1) =>
           (stages = <<>> /\ calls = <<>> /\ events = <<>>)
    /\ pc = "config_error" =>
           /\ GivenRounds(config) < 1
           /\ failure = <<"validation">>
           /\ stages = <<>>
           /\ calls = <<>>
           /\ events = <<>>
           /\ state.user_query = <<>>
    /\ (pc \notin {"unconfigured", "config_error"}) => config.debate_rounds >= 1
    /\ (pc \notin {"unconfigured", "config_error", "configured"}) => state.max_rounds >= 1
    /\ (calls # <<>> \/ stages # <<>>) => state.max_rounds >= 1

\* Data with debate_rounds 0 has been rejected.
C20_Witness ==
    /\ pc = "config_error"
    /\ "debate_rounds" \in DOMAIN config
    /\ config.debate_rounds = 0

\* The awaits of a status callback and of a result callback.
StatusPcs == {"cd_status", "db_status", "ud_status", "fe_status"}
NotifyPcs == {"cd_notify", "db_notify", "ud_notify", "fe_notify"}
\* The agent calls the first k entered nodes make when they run to their end.
CallsOfNodes(k) ==
    Cardinality({ j \in 1 .. k : stages[j] # "council_debate" })
        + N * Cardinality({ j \in 1 .. k : stages[j] = "council_debate" })

\* C21: while a callback invocation is pending the run has made exactly the
\* agent calls, notifications and commits that precede that invocation in
\* the node (a pending status callback: none of its node's agent calls yet);
\* an agent call starts only in a step that emits nothing and commits
\* nothing and, with a callback, only when the node's status callback has
\* completed; a notification is emitted in a step that starts no call and
\* commits nothing; and with a callback the state is committed only when
\* the node's result callback completes.
C21_CallbackBackPressure ==
    /\ []((pc \in CallbackPcs) =>
              /\ config.ui_callback
              /\ Len(events) = 2 * Len(stages) - (IF pc \in StatusPcs THEN 1 ELSE 0)
              /\ events[Len(events)].type = "status" <=> pc \in StatusPcs
              /\ Len(calls) = CallsOfNodes(Len(stages) - (IF pc \in StatusPcs THEN 1 ELSE 0))
              /\ Len(state.drafts) + Len(state.feedback_history) =
                     Cardinality({ j \in 1 .. Len(stages) - 1 : stages[j] # "final_edit" })
              /\ state.final_response = <<>>
              /\ \A i \in DOMAIN tasks : tasks[i] # "inflight")
    /\ [][calls' # calls =>
              /\ events' = events
              /\ state' = state
              /\ config.ui_callback =>
                     (pc \in StatusPcs /\ events[Len(events)].type = "status")]_vars
    /\ [][events' # events =>
              /\ calls' = calls
              /\ state' = state
              /\ pc' \in CallbackPcs]_vars
    /\ [][(pc # "idle" /\ config.ui_callback /\ state' # state) =>
              /\ pc \in NotifyPcs
              /\ UNCHANGED <<events, calls>>]_vars

\* The status callback of the second debate round is pending.
C21_Witness ==
    /\ pc = "db_status"
    /\ round = 2
    /\ N = 2
    /\ Len(calls) = 4
    /\ Len(events) = 7

\* The latest notification of the run.
LastEvent == events[Len(events)]

\* C22, as stated: when a node's result notification is emitted its update is
\* already in the state: at draft_created and draft_updated the new draft is
\* the last element of drafts and is current_draft, at feedback_round(r)
\* feedback_history has r entries and current_round is r, at final_response
\* final_response is set.
C22_AsStated ==
    events # <<>> =>
        /\ LastEvent.type \in {"draft_created", "draft_updated"} =>
               /\ state.drafts # <<>>
               /\ state.drafts[Len(state.drafts)] = LastEvent.payload.content
               /\ state.current_draft = LastEvent.payload.content
        /\ LastEvent.type = "feedback_round" =>
               /\ Len(state.feedback_history) = LastEvent.payload.round
               /\ state.current_round = LastEvent.payload.round
        /\ LastEvent.type = "final_response" =>
               state.final_response = LastEvent.payload.content

\* The places in calls of the Drafter's update_draft invocations.
UpdateCalls == { k \in 1 .. Len(calls) : calls[k].op = "update_draft" }
\* The feedback texts of committed round r, in the order of its entries.
FeedbackTexts(r) ==
    [i \in 1 .. Len(state.feedback_history[r]) |-> state.feedback_history[r][i].feedback]

\* C23: the Drafter's update_draft is invoked only with the feedback of a
\* round from 1 to R - 1, once for each such round, never with that of round
\* R; and the Editor is given the draft the members were given in round R,
\* with no revision in between.
C23_LastRoundNotRevised ==
    /\ \A k \in UpdateCalls :
           /\ calls[k].agent_id = DraftAgentId
           /\ k = DraftCall(RoundOfCall(k))
           /\ RoundOfCall(k) - 1 \in 1 .. R - 1
           /\ calls[k].args.feedback = FeedbackTexts(RoundOfCall(k) - 1)
    /\ Cardinality(UpdateCalls) <= R - 1
    /\ (pc \in FinalEditPcs \cup {"end", "done"}) => Cardinality(UpdateCalls) = R - 1
    /\ \A k \in 1 .. Len(calls) :
           calls[k].op = "edit_final_response" =>
               /\ k = DraftCall(R) + N + 1
               /\ calls[k].args.final_draft = ReplyContent(DraftCall(R))
               /\ \A i \in 1 .. N :
                      /\ calls[ReviewCall(R, i)].op = "provide_feedback"
                      /\ calls[ReviewCall(R, i)].args.round_number = R
                      /\ calls[ReviewCall(R, i)].args.current_draft = calls[k].args.final_draft

\* A run of two rounds is done, and the two rounds' feedback differ.
C23_Witness ==
    /\ pc = "done"
    /\ R = 2
    /\ N = 2
    /\ FeedbackTexts(1) # FeedbackTexts(2)
    /\ Cardinality(UpdateCalls) = 1

\* C24: the Drafter's update_draft is invoked with the state's current_draft
\* and with the feedback texts of the last entry of feedback_history, the
\* round just committed: one text per member, in the order of the entry,
\* which is the order of the configured members, and nothing else.
C24_UpdateArguments ==
    pc = "ud_agent" =>
        LET call == calls[Len(calls)]
            r == Len(state.feedback_history)
        IN  /\ call.agent_id = DraftAgentId
            /\ call.op = "update_draft"
            /\ DOMAIN call.args = {"current_draft", "feedback"}
            /\ call.args.current_draft = state.current_draft
            /\ r = state.current_round
            /\ r >= 1
            /\ Len(call.args.feedback) = N
            /\ \A i \in 1 .. N :
                   /\ state.feedback_history[r][i].agent_id = CouncilMemberId(i)
                   /\ call.args.feedback[i] = state.feedback_history[r][i].feedback
                   /\ call.args.feedback[i] = ReplyContent(ReviewCall(r, i))

\* The revision after round 2 of two members who answered differently, in
\* round 2 and from round 1.
C24_Witness ==
    /\ pc = "ud_agent"
    /\ N = 2
    /\ Len(state.feedback_history) = 2
    /\ FeedbackTexts(2)[1] # FeedbackTexts(2)[2]
    /\ FeedbackTexts(1) # FeedbackTexts(2)

\* The places in calls of the Editor's invocations.
EditorCalls == { k \in 1 .. Len(calls) : calls[k].op = "edit_final_response" }

\* C25: the Editor is invoked at most once in a run and exactly once in a
\* run that returns, as the last call, after round max_rounds has been
\* committed, with the query run was given, with the last element of drafts
\* as final_draft and with the feedback_history of exactly max_rounds rounds.
C25_EditorInvocation ==
    /\ Cardinality(EditorCalls) <= 1
    /\ (pc \in {"fe_agent", "fe_notify", "end", "done"}) => Cardinality(EditorCalls) = 1
    /\ \A k \in EditorCalls :
           /\ k = Len(calls)
           /\ calls[k].agent_id = EditorAgentId
           /\ DOMAIN calls[k].args = {"user_query", "final_draft", "debate_history"}
           /\ calls[k].args.user_query = calls[1].args.user_query
           /\ calls[k].args.user_query = state.user_query
           /\ calls[k].args.final_draft = state.drafts[Len(state.drafts)]
           /\ calls[k].args.debate_history = state.feedback_history
           /\ Len(calls[k].args.debate_history) = state.max_rounds
           /\ state.current_round = state.max_rounds
           /\ Entered("council_debate") = state.max_rounds

\* The Editor is at work after three rounds and two revisions.
C25_Witness ==
    /\ pc = "fe_agent"
    /\ R = 3
    /\ N = 1
    /\ Len(state.drafts) = 3
    /\ state.drafts[3] # state.drafts[1]

\* The places in events of the feedback_round notifications.
FeedbackEvents == { k \in 1 .. Len(events) : events[k].type = "feedback_round" }

\* C26: current_round is 0 when create_draft has committed; the commit of a
\* council_debate raises it by exactly one and no other step changes it, so
\* between nodes it is the length of feedback_history; the round numbers
\* given to the members and reported by feedback_round are 1, 2, ..., R in
\* that order.
C26_RoundCounter ==
    /\ [](pc # "idle" =>
              /\ state.current_round = Len(state.feedback_history)
              /\ state.current_round \in 0 .. R
              /\ stages = <<"create_draft">> => state.current_round = 0)
    /\ [](\A k \in 1 .. Len(calls) :
              calls[k].op = "provide_feedback" =>
                  (calls[k].args.round_number = RoundOfCall(k) /\ RoundOfCall(k) \in 1 .. R))
    /\ [](\A k \in FeedbackEvents :
              /\ events[k].payload.round = Cardinality({ j \in FeedbackEvents : j <= k })
              /\ events[k].payload.round \in 1 .. R)
    /\ []((pc \in FinalEditPcs \cup {"end", "done"}) =>
              /\ state.current_round = R
              /\ config.ui_callback => Cardinality(FeedbackEvents) = R)
    /\ [][(pc # "idle" /\ state'.current_round # state.current_round) =>
              /\ pc \in DebatePcs
              /\ pc' \in {"update_draft", "final_edit"}
              /\ state'.current_round = state.current_round + 1
              /\ state'.current_round = round']_vars
    /\ [][(pc \in DebatePcs /\ pc' \in {"update_draft", "final_edit"}) =>
              state'.current_round = state.current_round + 1]_vars

\* Three rounds, each reported to the callback, are committed.
C26_Witness ==
    /\ pc = "final_edit"
    /\ state.current_round = 3
    /\ N = 1
    /\ Cardinality(FeedbackEvents) = 3

CreateDraftPcs == {"create_draft", "cd_status", "cd_agent", "cd_notify"}
\* The step in which a node whose awaits are pcs returns its update.
Commits(pcs) == pc \in pcs /\ pc' \notin pcs \cup {"failed"}
\* a is the beginning of b.
IsPrefix(a, b) == Len(a) <= Len(b) /\ SubSeq(b, 1, Len(a)) = a

\* C27: in every step of a run the old drafts is a prefix of the new drafts
\* and the old feedback_history a prefix of the new one, each longer by one
\* element at most; the commit of create_draft and of update_draft appends
\* one draft and no round, the commit of council_debate one round and no
\* draft, the commit of final_edit nothing, and no other step changes them.
C27_AppendOnly ==
    /\ [][/\ IsPrefix(state.drafts, state'.drafts)
          /\ IsPrefix(state.feedback_history, state'.feedback_history)
          /\ Len(state'.drafts) <= Len(state.drafts) + 1
          /\ Len(state'.feedback_history) <= Len(state.feedback_history) + 1]_vars
    /\ [][(Commits(CreateDraftPcs) \/ Commits(UpdatePcs)) =>
              /\ Len(state'.drafts) = Len(state.drafts) + 1
              /\ state'.drafts[Len(state'.drafts)] = response'.content
              /\ state'.feedback_history = state.feedback_history]_vars
    /\ [][Commits(DebatePcs) =>
              /\ Len(state'.feedback_history) = Len(state.feedback_history) + 1
              /\ state'.drafts = state.drafts]_vars
    /\ [][(state'.drafts # state.drafts \/ state'.feedback_history # state.feedback_history) =>
              (Commits(CreateDraftPcs) \/ Commits(UpdatePcs) \/ Commits(DebatePcs))]_vars
    /\ [][Commits(FinalEditPcs) =>
              /\ state'.drafts = state.drafts
              /\ state'.feedback_history = state.feedback_history]_vars

\* Three drafts and three rounds have been appended one by one.
C27_Witness ==
    /\ pc = "done"
    /\ N = 2
    /\ Len(state.drafts) = 3
    /\ Len(state.feedback_history) = 3
    /\ state.drafts[1] # state.drafts[2]

\* C28: run puts its argument and the configuration's debate_rounds into the
\* state, and no step of the run changes user_query or max_rounds: max_rounds
\* is always the configuration's debate_rounds, and user_query is the query
\* every agent call that carries one was given.
C28_QueryAndRoundsFixed ==
    /\ [](pc # "idle" =>
              /\ state.user_query \in Queries
              /\ state.max_rounds = config.debate_rounds
              /\ \A k \in 1 .. Len(calls) :
                     "user_query" \in DOMAIN calls[k].args =>
                         calls[k].args.user_query = state.user_query)
    /\ [][pc = "idle" =>
              /\ state'.user_query \in Queries
              /\ state'.max_rounds = config.debate_rounds]_vars
    /\ [][pc # "idle" =>
              /\ state'.user_query = state.user_query
              /\ state'.max_rounds = state.max_rounds
              /\ config' = config]_vars

\* A run of two rounds on the second query has returned.
C28_Witness ==
    /\ pc = "done"
    /\ state.user_query = "What is AI?"
    /\ state.max_rounds = 2
    /\ N = 1
    /\ Len(calls) = 5

\* C29: once create_draft has committed, current_draft is the last element
\* of drafts (before that both are empty); current_draft changes only in the
\* commit of create_draft or of update_draft, to the content of the
\* Drafter's response, and the commits of council_debate and final_edit
\* leave it as it is.
C29_CurrentDraftIsLast ==
    /\ [](pc # "idle" =>
              IF state.drafts = <<>>
              THEN state.current_draft = <<>> /\ stages \in {<<>>, <<"create_draft">>}
              ELSE state.current_draft = state.drafts[Len(state.drafts)])
    /\ []((pc \in DebatePcs \cup UpdatePcs \cup FinalEditPcs \cup {"end", "done"}) =>
              state.drafts # <<>>)
    /\ [][state'.current_draft # state.current_draft =>
              /\ Commits(CreateDraftPcs) \/ Commits(UpdatePcs)
              /\ state'.current_draft = response'.content
              /\ response'.agent_id = DraftAgentId]_vars
    /\ [][(Commits(DebatePcs) \/ Commits(FinalEditPcs)) =>
              state'.current_draft = state.current_draft]_vars

\* The second draft has replaced the first, and round 2 is committed.
C29_Witness ==
    /\ pc = "update_draft"
    /\ Len(state.drafts) = 2
    /\ Len(state.feedback_history) = 2
    /\ state.current_draft = state.drafts[2]
    /\ state.current_draft # state.drafts[1]

\* The operation the k-th agent call of a run is: each operation of an agent
\* is one llm.ainvoke, so an entry of calls is a model call.
ExpectedOp(k) ==
    IF (k - 1) % (N + 1) # 0 THEN "provide_feedback"
    ELSE IF RoundOfCall(k) = 1 THEN "create_initial_draft"
    ELSE IF RoundOfCall(k) <= R THEN "update_draft"
    ELSE "edit_final_response"

\* C30: every agent operation is one model call, never repeated: the calls
\* of a run are, in order, the initial draft, then per round the N members'
\* and the revision (after the last round the edit), each once; a run that
\* returns has made exactly 1 + R*N + (R - 1) + 1 of them, each answered
\* once; and a call that failed is not made again: once the run has failed
\* it makes no call, and the failing step makes none.
C30_OneModelCallEach ==
    /\ [](/\ Len(calls) <= 1 + R * N + (R - 1) + 1
          /\ \A k \in 1 .. Len(calls) :
                 /\ calls[k].op = ExpectedOp(k)
                 /\ calls[k].op = "provide_feedback" =>
                        calls[k].agent_id = CouncilMemberId((k - 1) % (N + 1))
          /\ DOMAIN replies \subseteq 1 .. Len(calls))
    /\ [](pc = "done" =>
              /\ Len(calls) = 1 + R * N + (R - 1) + 1
              /\ DOMAIN replies = 1 .. Len(calls))
    /\ [][IsPrefix(calls, calls')]_vars
    /\ [][(pc = "failed" \/ pc' = "failed") => calls' = calls]_vars
    /\ [][\A k \in DOMAIN replies :
              k \in DOMAIN replies' /\ replies'[k] = replies[k]]_vars

\* A run of three rounds with two members has returned after ten calls.
C30_Witness ==
    /\ pc = "done"
    /\ R = 3
    /\ N = 2
    /\ Len(calls) = 10
    /\ DOMAIN replies = 1 .. 10

\* C31: the members of round r are handed the r-th element of drafts, which
\* is the latest draft when the round fans out; every fan-out is of a draft
\* no earlier fan-out was of, so when the run reaches final_edit each
\* element of drafts has been reviewed in exactly one round.
C31_RoundReviewsItsDraft ==
    /\ \A k \in 1 .. Len(calls) :
           calls[k].op = "provide_feedback" =>
               /\ RoundOfCall(k) <= Len(state.drafts)
               /\ calls[k].args.current_draft = state.drafts[RoundOfCall(k)]
               /\ calls[k].args.round_number = RoundOfCall(k)
    /\ fanouts <= Len(state.drafts)
    /\ Len(state.drafts) <= fanouts + 1
    /\ (pc \in {"db_gather", "db_notify"}) =>
           /\ fanouts = Len(state.drafts)
           /\ round = Len(state.drafts)
    /\ (pc \in FinalEditPcs \cup {"end", "done"}) =>
           /\ fanouts = Len(state.drafts)
           /\ fanouts = R

\* Three drafts, each different from the one before, were reviewed in three
\* rounds.
C31_Witness ==
    /\ pc = "done"
    /\ N = 1
    /\ fanouts = 3
    /\ state.drafts[1] # state.drafts[2]
    /\ state.drafts[2] # state.drafts[3]

\* C32: a callback that fails while awaited fails the run with that failure
\* in a step that commits nothing, and nothing of the run happens after it:
\* the state is the one the earlier nodes committed.  A failure on
\* feedback_round(r) leaves feedback_history with r - 1 rounds and
\* current_round r - 1 although every member of round r has returned; a
\* failure on draft_created or draft_updated leaves drafts without the new
\* draft and current_draft as it was.
C32_CallbackFailure ==
    /\ [][(failure' = <<"callback">> /\ failure # <<"callback">>) =>
              /\ pc \in CallbackPcs
              /\ pc' = "failed"
              /\ failure = NoFailure
              /\ UNCHANGED <<state, stages, calls, events, returned>>]_vars
    /\ [](failure = <<"callback">> =>
              /\ pc = "failed"
              /\ returned = <<>>
              /\ state.final_response = <<>>
              /\ Len(state.drafts) + Len(state.feedback_history) = Len(stages) - 1
              /\ LastEvent.type = "feedback_round" =>
                     /\ LastEvent.payload.round = Len(state.feedback_history) + 1
                     /\ LastEvent.payload.round = state.current_round + 1
                     /\ Len(LastEvent.payload.feedback) = N
                     /\ \A i \in DOMAIN tasks : tasks[i] = "ok"
              /\ LastEvent.type = "draft_created" =>
                     (state.drafts = <<>> /\ state.current_draft = <<>>)
              /\ LastEvent.type = "draft_updated" =>
                     /\ Len(state.drafts) = Entered("update_draft")
                     /\ state.current_draft = state.drafts[Len(state.drafts)]
                     /\ state.current_draft = ReplyContent(DraftCall(Len(state.drafts))))
    /\ [][pc = "failed" =>
              /\ pc' = "failed"
              /\ UNCHANGED <<state, stages, calls, events, returned, failure>>]_vars

\* The callback failed on feedback_round(2) after both members had answered.
C32_Witness ==
    /\ pc = "failed"
    /\ failure = <<"callback">>
    /\ LastEvent.type = "feedback_round"
    /\ LastEvent.payload.round = 2
    /\ N = 2
    /\ Len(state.feedback_history) = 1
    /\ state.current_round = 1

\* The step leaves every key of the state outside keys as it is.
OnlyWrites(keys) ==
    /\ DOMAIN state' = DOMAIN state
    /\ \A f \in (DOMAIN state) \ keys : state'[f] = state[f]

\* C33: the commit of create_draft changes no key of the state but
\* current_draft, drafts and current_round; that of council_debate none but
\* current_round and feedback_history; that of update_draft none but
\* current_draft and drafts; that of final_edit none but final_response; and
\* no other step of a run changes the state.
C33_NodesWriteOwnKeys ==
    /\ [][Commits(CreateDraftPcs) =>
              OnlyWrites({"current_draft", "drafts", "current_round"})]_vars
    /\ [][Commits(DebatePcs) => OnlyWrites({"current_round", "feedback_history"})]_vars
    /\ [][Commits(UpdatePcs) => OnlyWrites({"current_draft", "drafts"})]_vars
    /\ [][Commits(FinalEditPcs) => OnlyWrites({"final_response"})]_vars
    /\ [][(/\ pc # "idle"
           /\ ~Commits(CreateDraftPcs)
           /\ ~Commits(DebatePcs)
           /\ ~Commits(UpdatePcs)
           /\ ~Commits(FinalEditPcs)) => OnlyWrites({})]_vars

\* All four nodes have committed; the final response is not the last draft.
C33_Witness ==
    /\ pc = "end"
    /\ N = 2
    /\ Entered("update_draft") = 1
    /\ state.final_response # state.current_draft
    /\ state.current_draft = state.drafts[2]
    /\ Len(state.feedback_history) = 2

\* The keys generate_response sets.
WrapperKeys == {"summary", "token_usage"}

\* m holds what generate_response puts in the metadata for the reply raw:
\* the summary when the reply has one, the token counts when it has usage.
WrapperKept(m, raw) ==
    LET sp == split_summary(raw.content)
    IN  /\ ("summary" \in DOMAIN m) <=> (sp[2] # <<>>)
        /\ ("summary" \in DOMAIN m) => (m["summary"] = sp[2])
        /\ ("token_usage" \in DOMAIN m) <=> (raw.usage # NoUsage)
        /\ ("token_usage" \in DOMAIN m) => (m["token_usage"] = raw.usage[1])

\* m is the wrapper's metadata for raw with the one key k added, set to v.
Tagged(m, raw, k, v) ==
    /\ WrapperKept(m, raw)
    /\ (DOMAIN m) \ WrapperKeys = {k}
    /\ m[k] = v

\* The latest invocation of the Drafter or the Editor that has returned.
LastDone ==
    CHOOSE k \in DOMAIN replies :
        /\ calls[k].op # "provide_feedback"
        /\ \A j \in DOMAIN replies : calls[j].op # "provide_feedback" => j <= k

\* The key each operation adds, with its value.
AddedKey(k) ==
    CASE calls[k].op = "update_draft" -> <<"revision", TRUE>>
      [] calls[k].op = "edit_final_response" -> <<"final", TRUE>>
      [] calls[k].op = "provide_feedback" -> <<"round", calls[k].args.round_number>>

\* C34: every reviewer result gather holds in round r has metadata round = r, the
\* round of the feedback_round event and the current_round the round commits;
\* the result of a revision has revision = TRUE and the Editor's final = TRUE;
\* each is the one key added to the metadata generate_response made of the reply.
C34_ResultMetadata ==
    /\ [](\A i \in DOMAIN results :
              results[i] # None =>
                  /\ Tagged(results[i].metadata, replies[ReviewCall(fanouts, i)],
                            "round", fanouts)
                  /\ AddedKey(ReviewCall(fanouts, i)) = <<"round", fanouts>>
                  /\ (pc = "db_notify") =>
                         /\ LastEvent.type = "feedback_round"
                         /\ LastEvent.payload.round = results[i].metadata["round"])
    /\ [][Commits(DebatePcs) =>
              /\ state'.current_round = fanouts'
              /\ \A i \in DOMAIN results' :
                     /\ results'[i] # None
                     /\ results'[i].metadata["round"] = state'.current_round]_vars
    /\ [](response # None =>
              /\ calls[LastDone].op = "create_initial_draft" =>
                     /\ WrapperKept(response.metadata, replies[LastDone])
                     /\ DOMAIN response.metadata \subseteq WrapperKeys
              /\ calls[LastDone].op # "create_initial_draft" =>
                     Tagged(response.metadata, replies[LastDone],
                            AddedKey(LastDone)[1], AddedKey(LastDone)[2]))
    /\ [](\A e \in 1 .. Len(events) :
              /\ events[e].type = "draft_updated" =>
                     /\ events[e].payload.metadata["revision"] = TRUE
                     /\ DOMAIN events[e].payload.metadata \subseteq WrapperKeys \cup {"revision"}
              /\ events[e].type = "final_response" =>
                     /\ events[e].payload.metadata["final"] = TRUE
                     /\ DOMAIN events[e].payload.metadata \subseteq WrapperKeys \cup {"final"})

\* Round 2 is notified: a reviewer's result has the summary, the token counts
\* and round 2, and the revision before it has revision beside its wrapper keys.
C34_Witness ==
    /\ pc = "db_notify"
    /\ fanouts = 2
    /\ \E i \in DOMAIN results :
           /\ results[i] # None
           /\ DOMAIN results[i].metadata = WrapperKeys \cup {"round"}
           /\ results[i].metadata["round"] = 2
    /\ calls[LastDone].op = "update_draft"
    /\ DOMAIN response.metadata = WrapperKeys \cup {"revision"}

\* self.council_members, by agent_id: one CouncilMember(member_id=i, ...) for
\* each (i, agent_config) of enumerate(config.council_members).
council_members == [i \in Members |-> CouncilMemberId(i)]

\* The entries of the list of dicts l have pairwise distinct agent_ids.
DistinctAgentIds(l) ==
    \A i, j \in 1 .. Len(l) : l[i].agent_id = l[j].agent_id => i = j

\* The agent_ids of l are council_member_0 .. council_member_(N-1), in this order.
InConfigurationOrder(l) ==
    /\ Len(l) = N
    /\ \A k \in 0 .. N - 1 : l[k + 1].agent_id = <<"council_member", k>>

\* C35: the workflow holds N reviewers, the k-th configured one (from 0) with
\* agent_id council_member_k, so pairwise distinct; the reviewers invoked in a
\* fan-out and the entries of every recorded or notified feedback round carry
\* these ids in configuration order, pairwise distinct.
C35_ReviewerIds ==
    /\ DOMAIN council_members = 1 .. N
    /\ \A k \in 0 .. N - 1 : council_members[k + 1] = <<"council_member", k>>
    /\ \A i, j \in 1 .. N : council_members[i] = council_members[j] => i = j
    /\ \A r \in 1 .. Len(state.feedback_history) :
           /\ InConfigurationOrder(state.feedback_history[r])
           /\ DistinctAgentIds(state.feedback_history[r])
    /\ \A e \in 1 .. Len(events) :
           events[e].type = "feedback_round" =>
               /\ InConfigurationOrder(events[e].payload.feedback)
               /\ DistinctAgentIds(events[e].payload.feedback)
    /\ \A k \in 1 .. Len(calls) :
           calls[k].op = "provide_feedback" =>
               calls[k].agent_id = <<"council_member", k - DraftCall(RoundOfCall(k)) - 1>>
    /\ \A i \in DOMAIN results :
           results[i] # None => results[i].agent_id = <<"council_member", i - 1>>

\* Two reviewers, the second finishing first, recorded in two rounds.
C35_Witness ==
    /\ pc = "done"
    /\ N = 2
    /\ order = <<2, 1>>
    /\ Len(state.feedback_history) = 2
    /\ state.feedback_history[2][1].agent_id = <<"council_member", 0>>
    /\ state.feedback_history[2][2].agent_id = <<"council_member", 1>>

=============================================================================
